---- MODULE Spec2Model ----
(***************************************************************************)
(* Model of the embedded-file responder of actix-web-rust-embed-responder  *)
(* (src/rust_embed_for_web.rs): EmbeddedForWebFileResponse::respond_to and *)
(* respond.  Each client slot is one call of respond_to; the slots share   *)
(* the embedded file, whose data is 'static.                               *)
(***************************************************************************)
EXTENDS Integers, Sequences, FiniteSets, TLC

\* ---------------------------------------------------------------- bounds
NumClients == 2
MaxTime == 2
MaxTokens == 2

Clients == 1..NumClients
MainClient == 1

\* ------------------------------------------------------------ Option<T>
None == <<>>
Some(x) == <<x>>
IsSome(o) == Len(o) = 1
Unwrap(o) == o[1]

\* --------------------------------------------------------------- strings
\* Strings are sequences of characters, so that quoting is visible.
DQ == "\""
Quote(s) == <<DQ>> \o s \o <<DQ>>
IsQuoted(s) == Len(s) >= 2 /\ s[1] = DQ /\ s[Len(s)] = DQ
GZIP == <<"g", "z", "i", "p">>
Hashes == {<<"a">>, <<"b">>}

\* ------------------------------------------------------- embedded file
\* The HTTP date string the embedding crate stores next to the timestamp.
HttpDate(t) == <<"t", ToString(t)>>
Times == 0..MaxTime
Data == <<1, 2, 3>>
DataGzip == <<9>>

Metadatas ==
    { [etag |-> Quote(h), last_modified |-> None, last_modified_timestamp |-> None] : h \in Hashes }
    \cup
    { [etag |-> Quote(h), last_modified |-> Some(HttpDate(t)), last_modified_timestamp |-> Some(t)] :
        h \in Hashes, t \in Times }

EmbeddedFiles ==
    { [data |-> Data, data_gzip |-> g, metadata |-> m] : g \in {None, Some(DataGzip)}, m \in Metadatas }

\* --------------------------------------------------------------- request
Methods == {"GET", "HEAD", "POST"}

RECURSIVE SeqsUpTo(_, _)
SeqsUpTo(S, n) ==
    IF n = 0 THEN {<<>>}
    ELSE LET shorter == SeqsUpTo(S, n - 1)
         IN shorter \cup { Append(s, x) : s \in {q \in shorter : Len(q) = n - 1}, x \in S }

\* Raw If-None-Match header values: a list of quoted tokens, or bytes the
\* parser rejects.
IfNoneMatchValues ==
    { [parseable |-> FALSE, tokens |-> <<>>] }
    \cup { [parseable |-> TRUE, tokens |-> ts] : ts \in SeqsUpTo({Quote(h) : h \in Hashes}, MaxTokens) }

\* Raw If-Unmodified-Since header values: opaque bytes, text that is not a
\* date, or an RFC 2822 date given as local time and zone offset.
TzOffsets == {0, 1}
IfUnmodifiedSinceValues ==
    { [ascii |-> FALSE, rfc2822 |-> FALSE, local |-> 0, offset |-> 0],
      [ascii |-> TRUE, rfc2822 |-> FALSE, local |-> 0, offset |-> 0] }
    \cup { [ascii |-> TRUE, rfc2822 |-> TRUE, local |-> l, offset |-> o] : l \in Times, o \in TzOffsets }

AcceptEncodingValues == { {"gzip"}, {"br"}, {"gzip", "br"} }

OptionOf(S) == {None} \cup { Some(v) : v \in S }

Requests ==
    [ method : Methods,
      if_none_match : OptionOf(IfNoneMatchValues),
      if_unmodified_since : OptionOf(IfUnmodifiedSinceValues),
      accept_encoding : OptionOf(AcceptEncodingValues) ]

\* -------------------------------------------------------------- helpers
\* crate::parse::parse_if_none_match_value
parse_if_none_match_value(v) == IF v.parseable THEN Some(v.tokens) ELSE None

\* crate::helper::accepts_gzip
accepts_gzip(r) == IsSome(r.accept_encoding) /\ "gzip" \in Unwrap(r.accept_encoding)

\* HeaderValue::to_str
to_str(v) == IF v.ascii THEN Some(v) ELSE None

\* chrono::DateTime::parse_from_rfc2822
parse_from_rfc2822(v) == IF v.rfc2822 THEN Some([local |-> v.local, offset |-> v.offset]) ELSE None

\* chrono::DateTime::timestamp
timestamp(dt) == dt.local - dt.offset

\* A mutation: only the first token of the list is compared.
ContainsFirstOnly(req_etags, e) == Len(req_etags) > 0 /\ req_etags[1] = e

\* req_etags.contains(&etag)
Contains(req_etags, e) == \E i \in DOMAIN req_etags : req_etags[i] = e

\* A mutation: the method gate is missing.
MethodAllowedAny(m) == TRUE

\* !(req.method() != Method::GET && req.method() != Method::HEAD)
MethodAllowed(m) == ~(m # "GET" /\ m # "HEAD")

\* A mutation: a header that parses to no token counts as no header.
IfNoneMatchHeaderNonEmpty(r) ==
    IF IsSome(r.if_none_match)
    THEN LET p == parse_if_none_match_value(Unwrap(r.if_none_match))
         IN IF IsSome(p) /\ Len(Unwrap(p)) = 0 THEN None ELSE p
    ELSE None

\* req.headers().get("If-None-Match").and_then(parse_if_none_match_value)
IfNoneMatchHeader(r) ==
    IF IsSome(r.if_none_match)
    THEN parse_if_none_match_value(Unwrap(r.if_none_match))
    ELSE None

\* A mutation: text that is not a date is read as the epoch.
IfUnmodifiedSinceHeaderOrEpoch(r) ==
    IF IsSome(r.if_unmodified_since) /\ IsSome(to_str(Unwrap(r.if_unmodified_since)))
    THEN LET d == parse_from_rfc2822(Unwrap(to_str(Unwrap(r.if_unmodified_since))))
         IN IF IsSome(d) THEN d ELSE Some([local |-> 0, offset |-> 0])
    ELSE None

\* req.headers().get("If-Unmodified-Since")
\*    .and_then(|v| v.to_str().ok())
\*    .and_then(|v| chrono::DateTime::parse_from_rfc2822(v).ok())
IfUnmodifiedSinceHeader(r) ==
    IF IsSome(r.if_unmodified_since) /\ IsSome(to_str(Unwrap(r.if_unmodified_since)))
    THEN parse_from_rfc2822(Unwrap(to_str(Unwrap(r.if_unmodified_since))))
    ELSE None

\* A mutation: an unchanged timestamp counts as modified.
IsModifiedSinceOrEqual(t, s) == t >= s

\* last_modified_timestamp > if_unmodified_since.timestamp()
IsModifiedSince(t, s) == t > s

\* HttpResponse::NotImplemented().finish()
NotImplemented == [status |-> 501, headers |-> <<>>, body |-> <<>>]

\* A mutation: the 304 response announces an encoding.
NotModifiedWithEncoding == [status |-> 304, headers |-> << <<"Content-Encoding", GZIP>> >>, body |-> <<>>]

\* HttpResponse::NotModified().finish()
NotModified == [status |-> 304, headers |-> <<>>, body |-> <<>>]

\* A mutation: the gzip body is sent whenever it exists.
respondGzipAlways(file, r, etag, last_modified) ==
    LET h1 == << <<"ETag", etag>> >>
        h2 == IF IsSome(last_modified) THEN Append(h1, <<"Last-Modified", Unwrap(last_modified)>>) ELSE h1
    IN IF IsSome(file.data_gzip)
       THEN [status |-> 200, headers |-> Append(h2, <<"Content-Encoding", GZIP>>), body |-> Unwrap(file.data_gzip)]
       ELSE [status |-> 200, headers |-> h2, body |-> file.data]

\* A mutation: the Last-Modified header is never appended.
respondNoLastModified(file, r, etag, last_modified) ==
    LET h1 == << <<"ETag", etag>> >>
    IN IF accepts_gzip(r) /\ IsSome(file.data_gzip)
       THEN [status |-> 200, headers |-> Append(h1, <<"Content-Encoding", GZIP>>), body |-> Unwrap(file.data_gzip)]
       ELSE [status |-> 200, headers |-> h1, body |-> file.data]

\* fn respond(file, req, etag, last_modified) -> HttpResponse
respond(file, r, etag, last_modified) ==
    LET h1 == << <<"ETag", etag>> >>
        h2 == IF IsSome(last_modified) THEN Append(h1, <<"Last-Modified", Unwrap(last_modified)>>) ELSE h1
    IN IF accepts_gzip(r) /\ IsSome(file.data_gzip)
       THEN [status |-> 200, headers |-> Append(h2, <<"Content-Encoding", GZIP>>), body |-> Unwrap(file.data_gzip)]
       ELSE [status |-> 200, headers |-> h2, body |-> file.data]

\* fn respond_to(self, req) -> HttpResponse, evaluated in one piece
respond_to(file, r) ==
    IF ~MethodAllowed(r.method) THEN NotImplemented
    ELSE LET etag == file.metadata.etag
             last_modified == file.metadata.last_modified
             last_modified_timestamp == file.metadata.last_modified_timestamp
             req_etags == IfNoneMatchHeader(r)
             if_unmodified_since == IfUnmodifiedSinceHeader(r)
         IN IF IsSome(req_etags)
            THEN IF Contains(Unwrap(req_etags), etag)
                 THEN NotModified
                 ELSE respond(file, r, etag, last_modified)
            ELSE IF IsSome(last_modified_timestamp) /\ IsSome(if_unmodified_since)
                 THEN IF IsModifiedSince(Unwrap(last_modified_timestamp), timestamp(Unwrap(if_unmodified_since)))
                      THEN respond(file, r, etag, last_modified)
                      ELSE NotModified
                 ELSE respond(file, r, etag, last_modified)

\* ----------------------------------------------------------------- state
VARIABLES embedded_file, req, pc, local, resp
vars == <<embedded_file, req, pc, local, resp>>

Req(c) == Unwrap(req[c])
Local(c) == Unwrap(local[c])
Resp(c) == Unwrap(resp[c])

InitCalls ==
    /\ req = [c \in Clients |-> None]
    /\ pc = [c \in Clients |-> "idle"]
    /\ local = [c \in Clients |-> None]
    /\ resp = [c \in Clients |-> None]

Init ==
    /\ embedded_file \in EmbeddedFiles
    /\ InitCalls

\* The framework calls respond_to(self, req) with request r.
Receive(c, r) ==
    /\ pc[c] = "idle"
    /\ req' = [req EXCEPT ![c] = Some(r)]
    /\ pc' = [pc EXCEPT ![c] = "method"]
    /\ UNCHANGED <<embedded_file, local, resp>>

\* The method gate, then the reads of the file's validators.
MethodGate(c) ==
    /\ pc[c] = "method"
    /\ IF ~MethodAllowed(Req(c).method)
       THEN /\ resp' = [resp EXCEPT ![c] = Some(NotImplemented)]
            /\ pc' = [pc EXCEPT ![c] = "done"]
            /\ UNCHANGED local
       ELSE /\ local' = [local EXCEPT ![c] =
                    Some([etag |-> embedded_file.metadata.etag,
                          last_modified |-> embedded_file.metadata.last_modified,
                          last_modified_timestamp |-> embedded_file.metadata.last_modified_timestamp])]
            /\ pc' = [pc EXCEPT ![c] = "if_none_match"]
            /\ UNCHANGED resp
    /\ UNCHANGED <<embedded_file, req>>

\* A mutation: a mismatching If-None-Match falls through to the time check.
IfNoneMatchFallThrough(c) ==
    /\ pc[c] = "if_none_match"
    /\ LET req_etags == IfNoneMatchHeader(Req(c))
       IN IF IsSome(req_etags) /\ Contains(Unwrap(req_etags), Local(c).etag)
          THEN /\ resp' = [resp EXCEPT ![c] = Some(NotModified)]
               /\ pc' = [pc EXCEPT ![c] = "done"]
          ELSE /\ pc' = [pc EXCEPT ![c] = "if_unmodified_since"]
               /\ UNCHANGED resp
    /\ UNCHANGED <<embedded_file, req, local>>

\* The If-None-Match step.
IfNoneMatch(c) ==
    /\ pc[c] = "if_none_match"
    /\ LET req_etags == IfNoneMatchHeader(Req(c))
       IN IF IsSome(req_etags)
          THEN IF Contains(Unwrap(req_etags), Local(c).etag)
               THEN /\ resp' = [resp EXCEPT ![c] = Some(NotModified)]
                    /\ pc' = [pc EXCEPT ![c] = "done"]
               ELSE /\ pc' = [pc EXCEPT ![c] = "respond"]
                    /\ UNCHANGED resp
          ELSE /\ pc' = [pc EXCEPT ![c] = "if_unmodified_since"]
               /\ UNCHANGED resp
    /\ UNCHANGED <<embedded_file, req, local>>

\* The If-Unmodified-Since step, falling through to respond.
IfUnmodifiedSince(c) ==
    /\ pc[c] = "if_unmodified_since"
    /\ LET last_modified_timestamp == Local(c).last_modified_timestamp
           if_unmodified_since == IfUnmodifiedSinceHeader(Req(c))
       IN IF IsSome(last_modified_timestamp) /\ IsSome(if_unmodified_since)
          THEN IF IsModifiedSince(Unwrap(last_modified_timestamp), timestamp(Unwrap(if_unmodified_since)))
               THEN /\ pc' = [pc EXCEPT ![c] = "respond"]
                    /\ UNCHANGED resp
               ELSE /\ resp' = [resp EXCEPT ![c] = Some(NotModified)]
                    /\ pc' = [pc EXCEPT ![c] = "done"]
          ELSE /\ pc' = [pc EXCEPT ![c] = "respond"]
               /\ UNCHANGED resp
    /\ UNCHANGED <<embedded_file, req, local>>

\* A mutation: the gzip body is moved out of the shared file.
RespondTake(c) ==
    /\ pc[c] = "respond"
    /\ resp' = [resp EXCEPT ![c] = Some(respond(embedded_file, Req(c), Local(c).etag, Local(c).last_modified))]
    /\ pc' = [pc EXCEPT ![c] = "done"]
    /\ embedded_file' = IF accepts_gzip(Req(c))
                        THEN [embedded_file EXCEPT !.data_gzip = None]
                        ELSE embedded_file
    /\ UNCHANGED <<req, local>>

\* The call of respond.
Respond(c) ==
    /\ pc[c] = "respond"
    /\ resp' = [resp EXCEPT ![c] = Some(respond(embedded_file, Req(c), Local(c).etag, Local(c).last_modified))]
    /\ pc' = [pc EXCEPT ![c] = "done"]
    /\ UNCHANGED <<embedded_file, req, local>>

Step(c) ==
    \/ MethodGate(c)
    \/ IfNoneMatch(c)
    \/ IfUnmodifiedSince(c)
    \/ Respond(c)

\* One request, evaluated alone.
Next ==
    \/ \E r \in Requests : Receive(MainClient, r)
    \/ Step(MainClient)

Spec == Init /\ [][Next]_vars

\* ------------------------------------------- several requests, one file
ConcFiles ==
    { [data |-> Data, data_gzip |-> Some(DataGzip),
       metadata |-> [etag |-> Quote(<<"a">>), last_modified |-> Some(HttpDate(1)),
                     last_modified_timestamp |-> Some(1)]],
      [data |-> Data, data_gzip |-> None,
       metadata |-> [etag |-> Quote(<<"b">>), last_modified |-> None,
                     last_modified_timestamp |-> None]],
      [data |-> Data, data_gzip |-> Some(DataGzip),
       metadata |-> [etag |-> Quote(<<"b">>), last_modified |-> Some(HttpDate(MaxTime)),
                     last_modified_timestamp |-> Some(MaxTime)]] }

DateValue(l) == [ascii |-> TRUE, rfc2822 |-> TRUE, local |-> l, offset |-> 0]
TokenList(ts) == [parseable |-> TRUE, tokens |-> ts]

ConcRequests ==
    { [method |-> "GET", if_none_match |-> None, if_unmodified_since |-> None,
       accept_encoding |-> Some({"gzip"})],
      [method |-> "GET", if_none_match |-> None, if_unmodified_since |-> None,
       accept_encoding |-> None],
      [method |-> "GET", if_none_match |-> Some(TokenList(<<Quote(<<"a">>)>>)),
       if_unmodified_since |-> None, accept_encoding |-> Some({"gzip"})],
      [method |-> "HEAD", if_none_match |-> None, if_unmodified_since |-> Some(DateValue(1)),
       accept_encoding |-> Some({"gzip"})],
      [method |-> "POST", if_none_match |-> Some(TokenList(<<Quote(<<"a">>)>>)),
       if_unmodified_since |-> None, accept_encoding |-> None],
      [method |-> "GET", if_none_match |-> Some(TokenList(<<>>)),
       if_unmodified_since |-> Some(DateValue(1)), accept_encoding |-> Some({"gzip"})] }

InitConc ==
    /\ embedded_file \in ConcFiles
    /\ InitCalls

NextConc ==
    \E c \in Clients :
        \/ \E r \in ConcRequests : Receive(c, r)
        \/ Step(c)

SpecConc == InitConc /\ [][NextConc]_vars

\* ------------------------------------------------- vocabulary of claims
Done(c) == pc[c] = "done"
GetOrHead(c) == Req(c).method \in {"GET", "HEAD"}
Status(c) == Resp(c).status
HeaderValues(rsp, name) ==
    LET sel == SelectSeq(rsp.headers, LAMBDA h : h[1] = name)
    IN [i \in 1..Len(sel) |-> sel[i][2]]

\* The parse result of the request's If-None-Match header.
InmParse(c) ==
    IF Req(c).if_none_match = None THEN None
    ELSE parse_if_none_match_value(Unwrap(Req(c).if_none_match))
InmHasEtag(c) ==
    /\ IsSome(InmParse(c))
    /\ \E i \in 1..Len(Unwrap(InmParse(c))) : Unwrap(InmParse(c))[i] = embedded_file.metadata.etag
InmLacksEtag(c) ==
    /\ IsSome(InmParse(c))
    /\ \A i \in 1..Len(Unwrap(InmParse(c))) : Unwrap(InmParse(c))[i] # embedded_file.metadata.etag

\* S: the instant of a parseable If-Unmodified-Since header.
SinceKnown(c) ==
    /\ Req(c).if_unmodified_since # None
    /\ Unwrap(Req(c).if_unmodified_since).ascii
    /\ Unwrap(Req(c).if_unmodified_since).rfc2822
Since(c) == Unwrap(Req(c).if_unmodified_since).local - Unwrap(Req(c).if_unmodified_since).offset

\* T: the file's last-modified timestamp.
TimeKnown == embedded_file.metadata.last_modified_timestamp # None
Time == Unwrap(embedded_file.metadata.last_modified_timestamp)

\* The three ways to SendFull and the two ways to NotModified.
PathMismatch(c) == GetOrHead(c) /\ InmLacksEtag(c)
PathModified(c) == GetOrHead(c) /\ InmParse(c) = None /\ TimeKnown /\ SinceKnown(c) /\ Time > Since(c)
PathNoValidator(c) == GetOrHead(c) /\ InmParse(c) = None /\ ~(TimeKnown /\ SinceKnown(c))
PathMatch(c) == GetOrHead(c) /\ InmHasEtag(c)
PathUnmodified(c) == GetOrHead(c) /\ InmParse(c) = None /\ TimeKnown /\ SinceKnown(c) /\ Time <= Since(c)

\* ---------------------------------------------------------------- claims

\* C1 as stated: every request, of any method, whose If-None-Match parses
\* to a set containing the file's etag gets 304.
C1_AnyMethod ==
    \A c \in Clients : (Done(c) /\ InmHasEtag(c)) => Status(c) = 304

\* C1 amended: every GET or HEAD request whose If-None-Match parses to a set
\* containing the file's etag gets exactly the empty 304 response, whatever
\* If-Unmodified-Since and the file's timestamp are.
C1_MatchNotModified ==
    \A c \in Clients : (Done(c) /\ GetOrHead(c) /\ InmHasEtag(c)) => Status(c) = 304

C1_Witness ==
    /\ Done(MainClient) /\ GetOrHead(MainClient) /\ InmHasEtag(MainClient)
    /\ Len(Unwrap(InmParse(MainClient))) = 2
    /\ Unwrap(InmParse(MainClient))[1] # embedded_file.metadata.etag
    /\ TimeKnown /\ SinceKnown(MainClient) /\ Time > Since(MainClient)
    /\ Status(MainClient) = 304

\* C2: a GET or HEAD request whose If-None-Match parses but does not contain
\* the file's etag gets 200 with ETag equal to the file's etag, and
\* If-Unmodified-Since plays no part.
C2_MismatchSendFull ==
    \A c \in Clients :
        (Done(c) /\ GetOrHead(c) /\ InmLacksEtag(c)) =>
            /\ Status(c) = 200
            /\ HeaderValues(Resp(c), "ETag") = <<embedded_file.metadata.etag>>

C2_Witness ==
    /\ Done(MainClient) /\ GetOrHead(MainClient) /\ InmLacksEtag(MainClient)
    /\ Len(Unwrap(InmParse(MainClient))) > 0
    /\ TimeKnown /\ SinceKnown(MainClient) /\ Time <= Since(MainClient)
    /\ Status(MainClient) = 200

\* C3: with a known timestamp T, no usable If-None-Match and a parseable
\* If-Unmodified-Since S, a GET or HEAD request gets 200 iff T > S and 304
\* iff T <= S.
C3_TimeValidation ==
    \A c \in Clients :
        (Done(c) /\ GetOrHead(c) /\ InmParse(c) = None /\ TimeKnown /\ SinceKnown(c)) =>
            /\ Status(c) = 200 <=> Time > Since(c)
            /\ Status(c) = 304 <=> Time <= Since(c)

C3_Witness ==
    /\ Done(MainClient) /\ GetOrHead(MainClient) /\ InmParse(MainClient) = None
    /\ TimeKnown /\ SinceKnown(MainClient) /\ Time = Since(MainClient)
    /\ Unwrap(Req(MainClient).if_unmodified_since).offset # 0
    /\ Status(MainClient) = 304

\* C4: a request with a method other than GET and HEAD is answered 501 at
\* the method gate: it never reaches a validator step or respond, and its
\* response is never 200 or 304.
C4_MethodGate ==
    \A c \in Clients :
        (pc[c] # "idle" /\ ~GetOrHead(c)) =>
            /\ pc[c] \in {"method", "done"}
            /\ local[c] = None
            /\ Done(c) => (Status(c) = 501 /\ Resp(c).headers = <<>> /\ Resp(c).body = <<>>)

C4_Witness ==
    /\ Done(MainClient) /\ ~GetOrHead(MainClient) /\ InmHasEtag(MainClient)
    /\ Status(MainClient) = 501

\* C5: a GET or HEAD request without a usable If-None-Match gets 200
\* whenever If-Unmodified-Since is absent or unparseable or the file has no
\* timestamp.
C5_NoTimeValidation ==
    \A c \in Clients :
        (Done(c) /\ GetOrHead(c) /\ InmParse(c) = None /\ (~SinceKnown(c) \/ ~TimeKnown)) =>
            Status(c) = 200

C5_Witness ==
    /\ Done(MainClient) /\ GetOrHead(MainClient) /\ InmParse(MainClient) = None
    /\ Req(MainClient).if_none_match # None
    /\ Req(MainClient).if_unmodified_since # None /\ ~SinceKnown(MainClient)
    /\ TimeKnown
    /\ Status(MainClient) = 200

\* C6: a 200 response carries the gzip body and one Content-Encoding header
\* iff the client accepts gzip and the file has a gzip body; otherwise it
\* carries the identity body and no Content-Encoding header.
C6_Encoding ==
    \A c \in Clients :
        (Done(c) /\ Status(c) = 200) =>
            IF accepts_gzip(Req(c)) /\ embedded_file.data_gzip # None
            THEN /\ Resp(c).body = Unwrap(embedded_file.data_gzip)
                 /\ HeaderValues(Resp(c), "Content-Encoding") = <<GZIP>>
            ELSE /\ Resp(c).body = embedded_file.data
                 /\ HeaderValues(Resp(c), "Content-Encoding") = <<>>

C6_Witness ==
    /\ Done(MainClient) /\ Status(MainClient) = 200
    /\ accepts_gzip(Req(MainClient)) /\ embedded_file.data_gzip # None
    /\ Resp(MainClient).body = DataGzip

\* C7: on each of the three SendFull paths the response has status 200, one
\* ETag header holding the file's quoted etag, and a Last-Modified header
\* equal to the file's last_modified iff the file has one.
C7_SendFullHeaders ==
    \A c \in Clients :
        (Done(c) /\ (Status(c) = 200 \/ PathMismatch(c) \/ PathModified(c) \/ PathNoValidator(c))) =>
            /\ Status(c) = 200
            /\ HeaderValues(Resp(c), "ETag") = <<embedded_file.metadata.etag>>
            /\ IsQuoted(HeaderValues(Resp(c), "ETag")[1])
            /\ HeaderValues(Resp(c), "Last-Modified") = embedded_file.metadata.last_modified

C7_Witness ==
    /\ Done(MainClient) /\ PathModified(MainClient)
    /\ embedded_file.metadata.last_modified # None
    /\ Status(MainClient) = 200

\* C8: on both NotModified paths the response has status 304, no header and
\* an empty body, and no response that comes out of respond is a 304.
C8_NotModifiedEmpty ==
    /\ [](\A c \in Clients :
            (Done(c) /\ (Status(c) = 304 \/ PathMatch(c) \/ PathUnmodified(c))) =>
                (Status(c) = 304 /\ Resp(c).headers = <<>> /\ Resp(c).body = <<>>))
    /\ [][\A c \in Clients :
            (pc[c] = "respond" /\ pc'[c] = "done") => Unwrap(resp'[c]).status # 304]_vars

C8_Witness ==
    /\ Done(MainClient) /\ PathUnmodified(MainClient)
    /\ accepts_gzip(Req(MainClient)) /\ embedded_file.data_gzip # None
    /\ Status(MainClient) = 304

\* C9: under any interleaving of requests against one file, each finished
\* request holds the response respond_to computes for it alone, equal
\* requests hold equal responses, and no step changes the file.
C9_Pure ==
    /\ [](\A c \in Clients : Done(c) => Resp(c) = respond_to(embedded_file, Req(c)))
    /\ [](\A c, d \in Clients : (Done(c) /\ Done(d) /\ req[c] = req[d]) => resp[c] = resp[d])
    /\ [][embedded_file' = embedded_file]_vars

C9_Witness ==
    \E c, d \in Clients :
        /\ c # d /\ Done(c) /\ Done(d) /\ req[c] = req[d]
        /\ Status(c) = 200 /\ Resp(c).body = DataGzip

\* C10 as stated: a GET or HEAD request whose If-None-Match parses to no
\* token is treated as lacking the header, so T <= S gives 304.
C10_EmptyFallsThrough ==
    \A c \in Clients :
        (Done(c) /\ GetOrHead(c) /\ InmParse(c) = Some(<<>>)
            /\ TimeKnown /\ SinceKnown(c) /\ Time <= Since(c)) => Status(c) = 304

\* C10 amended: the If-None-Match step decides whenever the parse result is
\* present, also when it holds no token: such a GET or HEAD request gets 200
\* whatever T and S are; only an absent or unparseable header leaves the
\* decision to If-Unmodified-Since, where T <= S gives 304.
C10_EmptyDecides ==
    \A c \in Clients :
        (Done(c) /\ GetOrHead(c)) =>
            /\ InmParse(c) = Some(<<>>) => Status(c) = 200
            /\ (InmParse(c) = None /\ TimeKnown /\ SinceKnown(c) /\ Time <= Since(c)) => Status(c) = 304

C10_Witness ==
    /\ Done(MainClient) /\ GetOrHead(MainClient) /\ InmParse(MainClient) = Some(<<>>)
    /\ TimeKnown /\ SinceKnown(MainClient) /\ Time <= Since(MainClient)
    /\ Status(MainClient) = 200

====
